---- MODULE Spec2Model ----
(***************************************************************************)
(* Hexa-Server: an Express application over two MongoDB collections        *)
(* (services, booking) with a cookie-based JWT middleware.                  *)
(*                                                                         *)
(* Source: src/index.js (the variant with /jwt-auth, authenticateJWT and   *)
(* DELETE /api/v1/booking/:id) and src/unnamed/part_000 (the older variant *)
(* without them; its handlers are line-for-line the same as index.js's).   *)
(*                                                                         *)
(* Library behaviour the handlers rest on (the libraries are dependencies, *)
(* not code of the repository; each is modelled at the call that uses it): *)
(*  - jsonwebtoken sign(payload, secret, {expiresIn}): for an object       *)
(*    payload, timestamp = payload.iat || now; payload.iat = timestamp;    *)
(*    payload.exp = timestamp + expiresIn; a payload that already has exp  *)
(*    makes sign throw.                                                    *)
(*  - jsonwebtoken verify: fails on a malformed token, on a signature that *)
(*    does not match, and when now >= exp; otherwise yields the payload.   *)
(*  - cookie-parser: "Cookie: token=" gives req.cookies.token === "".      *)
(*  - mongodb insertOne(doc): the driver sets doc._id to a fresh ObjectId  *)
(*    only when doc._id is missing; a present _id is stored as given and a *)
(*    duplicate _id is a store error.  An ObjectId never equals a string.  *)
(*  - bson new ObjectId(s) throws for a string that is not 24 hex digits.  *)
(*  - Express 4 does not catch a rejected promise of an async handler (no  *)
(*    response is sent); Express 5 passes it to the default error handler  *)
(*    (status 500).  The repository pins no version, so both are outcomes. *)
(***************************************************************************)
EXTENDS Integers, FiniteSets, TLC

VARIABLES
    conn,       \* run(): "connecting" | "connected" | "failed"
    routes,     \* TRUE once run() has registered /jwt-auth and /api/v1/*
    services,   \* the services collection (never written by this program)
    bookings,   \* the booking collection
    nextOid,    \* the driver's ObjectId generator: the next fresh value
    posts,      \* how many POST /api/v1/booking requests have arrived
    pending,    \* per request slot: the store call a handler is awaiting
    last,       \* the most recent response sent
    created,    \* history: the (insertedId, body) pairs answered with 201
    removed,    \* history: the _id values a deleteOne has removed
    now,        \* the clock jwt.sign and jwt.verify read
    issued,     \* history: the tokens POST /jwt-auth has put in a cookie
    mw          \* the most recent pass of a request through authenticateJWT

vars == <<conn, routes, services, bookings, nextOid, posts, pending, last,
          created, removed, now, issued, mw>>

apiVars == <<services, bookings, nextOid, posts, pending, created, removed>>
authVars == <<now, issued, mw>>
runVars == <<conn, routes>>

(***************************************************************************)
(* Bounds                                                                  *)
(***************************************************************************)
\* Identifier strings are numbered: 0 is a string that is not 24 hex digits,
\* 1, 2, ... are distinct 24-hex-digit strings; requests name 0..MaxId.
MaxId == 3
\* How many POST /api/v1/booking requests arrive in a run.
MaxPosts == 2
\* Clock values 1..MaxTime, counted in half hours.
MaxTime == 4
\* How many tokens POST /jwt-auth issues in a run.
MaxTokens == 1

\* expiresIn: "1h", in half hours.
ExpiresIn == 2

Slots == {1, 2}
PathIds == 0..MaxId

(***************************************************************************)
(* JSON objects are functions from field names to values.                  *)
(***************************************************************************)
Has(obj, k) == k \in DOMAIN obj

\* obj with field k set to v (added when missing).
With(obj, k, v) == [x \in DOMAIN obj \cup {k} |-> IF x = k THEN v ELSE obj[x]]

\* The request bodies POST /jwt-auth is tried with: an optional email, an
\* optional numeric iat (0 included) and an optional numeric exp.
AuthBodies ==
    { [k \in K |-> IF k = "email" THEN "a@x.com" ELSE IF k = "iat" THEN i ELSE MaxTime]
        : K \in SUBSET {"email", "iat", "exp"}, i \in 0..MaxTime }

(***************************************************************************)
(* run(), src/index.js 64-175                                              *)
(***************************************************************************)
\* The services collection is filled outside this program: any set of
\* documents with distinct ObjectIds.
ServiceDocs(S) == {[_id |-> [t |-> "oid", v |-> i], name |-> i] : i \in S}

Init ==
    /\ conn = "connecting"
    /\ routes = FALSE
    /\ services \in {ServiceDocs(S) : S \in SUBSET (1..MaxId)}
    /\ bookings = {}
    /\ nextOid = 1
    /\ posts = 0
    /\ pending = [s \in Slots |-> [op |-> "idle"]]
    /\ last = [op |-> "none"]
    /\ created = {}
    /\ removed = {}
    /\ now = 1
    /\ issued = {}
    /\ mw = [kind |-> "none"]

\* services is never written and is read by the two services handlers only:
\* the specifications of the other handlers start from one catalogue.
InitOneCatalogue == Init /\ services = ServiceDocs({1})

\* await client.connect() resolves: run() goes on to register every route and
\* then awaits the admin ping, whose outcome is only logged (169) or printed
\* by run().catch (178): no state a handler reads depends on it.
ConnectOk ==
    /\ conn = "connecting"
    /\ conn' = "connected"
    /\ routes' = TRUE
    /\ UNCHANGED <<apiVars, last, authVars>>

\* await client.connect() rejects: run() ends in its finally, nothing is registered.
ConnectFail ==
    /\ conn = "connecting"
    /\ conn' = "failed"
    /\ UNCHANGED <<routes, apiVars, last, authVars>>

\* Whether the routes of run() are in the router.
RouteRegisteredAtLoad == TRUE

RouteRegistered == routes

\* GET /, registered at module load.
Root ==
    /\ last' = [op |-> "root", status |-> 200, kind |-> "text",
                text |-> "Server is running", conn |-> conn]
    /\ UNCHANGED <<runVars, apiVars, authVars>>

\* A request to /jwt-auth or /api/v1/* that no registered route matches:
\* Express's final handler answers 404.
NotRouted ==
    /\ ~RouteRegistered
    /\ last' = [op |-> "unrouted", status |-> 404, kind |-> "default", conn |-> conn]
    /\ UNCHANGED <<runVars, apiVars, authVars>>

(***************************************************************************)
(* Tokens: jwt.sign (src/index.js 86-88), jwt.verify (src/index.js 49)     *)
(***************************************************************************)
Secret == "ACCESS_TOKEN_SECRET"

\* jwt.sign throws when expiresIn is given and the payload already has exp.
SignThrows(body) == Has(body, "exp")

\* timestamp = payload.iat || now
SignTimestamp(body, t) == IF Has(body, "iat") /\ body["iat"] # 0 THEN body["iat"] ELSE t

SignClaimsDropBody(body, t) ==
    [k \in {"iat", "exp"} |-> IF k = "iat" THEN SignTimestamp(body, t)
                              ELSE SignTimestamp(body, t) + ExpiresIn]

\* The payload jwt.sign signs: the body, iat = timestamp, exp = timestamp + 1h.
SignClaims(body, t) ==
    With(With(body, "iat", SignTimestamp(body, t)), "exp", SignTimestamp(body, t) + ExpiresIn)

\* A signature binds a key to the payload it was computed over.
Sign(body, t) ==
    [kind |-> "jwt", payload |-> SignClaims(body, t), key |-> Secret, over |-> SignClaims(body, t)]

\* jwt.verify(token, secret) calls back without err.
VerifyOk(cookie, t) ==
    /\ cookie.kind = "jwt"
    /\ cookie.key = Secret
    /\ cookie.over = cookie.payload
    /\ ~(t >= cookie.payload["exp"])

\* POST /jwt-auth
JwtAuth ==
    /\ RouteRegistered
    /\ Cardinality(issued) < MaxTokens
    /\ \E body \in AuthBodies :
        IF SignThrows(body)
        THEN /\ last' = [op |-> "jwt-auth", status |-> 500, kind |-> "default", conn |-> conn]
             /\ UNCHANGED issued
        ELSE /\ issued' = issued \cup {[token |-> Sign(body, now), t |-> now, body |-> body]}
             /\ last' = [op |-> "jwt-auth", status |-> 200, kind |-> "success", conn |-> conn]
    /\ UNCHANGED <<runVars, apiVars, now, mw>>

Tick ==
    /\ now < MaxTime
    /\ now' = now + 1
    /\ UNCHANGED <<runVars, apiVars, last, issued, mw>>

(***************************************************************************)
(* authenticateJWT, src/index.js 45-59                                     *)
(***************************************************************************)
\* The values req.cookies.token is tried with: no cookie, an empty value, a
\* string that is no JWT, an issued token, an issued token whose payload was
\* edited (exp pushed back) under the old signature, and a token signed with
\* another key.
Cookies ==
    {[kind |-> "absent"], [kind |-> "empty"], [kind |-> "garbage"]}
    \cup {i.token : i \in issued}
    \cup {[i.token EXCEPT !.payload = With(@, "exp", MaxTime + ExpiresIn + 1)] : i \in issued}
    \cup {[i.token EXCEPT !.key = "other"] : i \in issued}

TruthyIfPresent(cookie) == cookie.kind # "absent"

\* if (token): undefined and "" are falsy.
Truthy(cookie) == cookie.kind \notin {"absent", "empty"}

AuthenticateJWT ==
    /\ \E cookie \in Cookies :
        mw' = IF Truthy(cookie)
              THEN IF ~VerifyOk(cookie, now)
                   THEN [kind |-> "done", cookie |-> cookie, at |-> now,
                         status |-> 403, nextCalls |-> 0, userSet |-> FALSE]
                   ELSE [kind |-> "done", cookie |-> cookie, at |-> now,
                         status |-> 0, nextCalls |-> 1, userSet |-> TRUE,
                         user |-> cookie.payload]
              ELSE [kind |-> "done", cookie |-> cookie, at |-> now,
                    status |-> 401, nextCalls |-> 0, userSet |-> FALSE]
    /\ UNCHANGED <<runVars, apiVars, last, now, issued>>

NextAuth ==
    \/ ConnectOk
    \/ ConnectFail
    \/ Root
    \/ NotRouted
    \/ JwtAuth
    \/ Tick
    \/ AuthenticateJWT

SpecAuth == InitOneCatalogue /\ [][NextAuth]_vars

(***************************************************************************)
(* The store, as the handlers use it                                       *)
(***************************************************************************)
\* new ObjectId(id) throws unless the string is 24 hex digits.
ObjectIdValid(id) == id # 0

\* new ObjectId(id): an identifier of the store's native type.
ObjectId(id) == [t |-> "oid", v |-> id]

\* A string _id, as a JSON body carries it; never equal to an ObjectId.
StringId(id) == [t |-> "str", v |-> id]

\* The identifier as the client writes it in a path (insertedId serialised).
IdString(oid) == oid.v

\* collection.find(filter).toArray(): equality on every field of the filter.
Find(coll, filter) == {d \in coll : \A k \in DOMAIN filter : Has(d, k) /\ d[k] = filter[k]}

NoFilter == [k \in {} |-> ""]

QueryOfAnyEmail(reqQuery) ==
    IF Has(reqQuery, "email") THEN [k \in {"email"} |-> reqQuery["email"]] ELSE NoFilter

\* let query = {}; if (req.query?.email) query = { email: req.query.email };
\* an empty string is falsy.
QueryOf(reqQuery) ==
    IF Has(reqQuery, "email") /\ reqQuery["email"] # ""
    THEN [k \in {"email"} |-> reqQuery["email"]]
    ELSE NoFilter

\* The query strings GET /api/v1/booking is tried with.
ReqQueries ==
    {NoFilter} \cup {[k \in {"email"} |-> e] : e \in {"", "a@x.com", "A@x.com"}}

\* The request bodies POST /api/v1/booking is tried with: an optional email
\* and an optional _id (a 24-hex-digit string chosen by the client).
BookingBodies ==
    { [k \in K |-> IF k = "email" THEN e ELSE StringId(1)]
        : K \in SUBSET {"email", "_id"}, e \in {"a@x.com"} }

\* insertOne(doc): the driver fills in _id only when the document has none.
InsertDoc(body, oid) == IF Has(body, "_id") THEN body ELSE With(body, "_id", ObjectId(oid))

InsertLost(coll, doc) == coll

\* The collection after the store has executed insertOne(doc).
Insert(coll, doc) == coll \cup {doc}

Busy(s) == pending[s].op = "sent"

(***************************************************************************)
(* Route handlers, src/index.js 102-162 (src/unnamed/part_000 63-129)      *)
(***************************************************************************)
\* GET /api/v1/services
ListServices ==
    /\ RouteRegistered
    /\ \E fault \in BOOLEAN :
        last' = IF fault
                THEN [op |-> "listServices", status |-> 500, kind |-> "msgerr",
                      message |-> "Error fetching services", conn |-> conn]
                ELSE [op |-> "listServices", status |-> 200, kind |-> "docs",
                      docs |-> Find(services, NoFilter), conn |-> conn]
    /\ UNCHANGED <<runVars, apiVars, authVars>>

FindOneAny(coll, filter) == IF coll = {} THEN {} ELSE {CHOOSE d \in coll : TRUE}

\* collection.findOne(filter): the matching document, as a set of at most one.
FindOne(coll, filter) ==
    IF Find(coll, filter) = {} THEN {} ELSE {CHOOSE d \in Find(coll, filter) : TRUE}

\* GET /api/v1/services/:id.  new ObjectId(id) is evaluated before the try:
\* when it throws, the async handler's promise rejects and the handler sends
\* nothing; what the client then gets is Express's doing (see the header).
GetService ==
    /\ RouteRegistered
    /\ \E id \in PathIds :
        IF ~ObjectIdValid(id)
        THEN \/ last' = [op |-> "getService", id |-> id, status |-> 0, kind |-> "none",
                         fault |-> FALSE, conn |-> conn]
             \/ last' = [op |-> "getService", id |-> id, status |-> 500, kind |-> "default",
                         fault |-> FALSE, conn |-> conn]
        ELSE \E fault \in BOOLEAN :
             last' = IF fault
                     THEN [op |-> "getService", id |-> id, status |-> 500, kind |-> "msgerr",
                           message |-> "Error fetching the service", fault |-> TRUE, conn |-> conn]
                     ELSE IF FindOne(services, [k \in {"_id"} |-> ObjectId(id)]) # {}
                     THEN [op |-> "getService", id |-> id, status |-> 200, kind |-> "doc",
                           doc |-> FindOne(services, [k \in {"_id"} |-> ObjectId(id)]),
                           fault |-> FALSE, conn |-> conn]
                     ELSE [op |-> "getService", id |-> id, status |-> 404, kind |-> "msg",
                           message |-> "Service not found", fault |-> FALSE, conn |-> conn]
    /\ UNCHANGED <<runVars, apiVars, authVars>>

\* What GET /api/v1/booking answers with, on a store without faults.
ListResult(coll, reqQuery) == Find(coll, QueryOf(reqQuery))

\* GET /api/v1/booking
ListBookings ==
    /\ RouteRegistered
    /\ \E reqQuery \in ReqQueries, fault \in BOOLEAN :
        last' = IF fault
                THEN [op |-> "listBookings", query |-> reqQuery, status |-> 500, kind |-> "msgerr",
                      message |-> "Error fetching booking data", conn |-> conn]
                ELSE [op |-> "listBookings", query |-> reqQuery, status |-> 200, kind |-> "docs",
                      docs |-> ListResult(bookings, reqQuery), conn |-> conn]
    /\ UNCHANGED <<runVars, apiVars, authVars>>

\* POST /api/v1/booking, up to the await: insertOne(newItem) is called, the
\* driver gives the document its _id and the insert is on its way.
CreateBookingCall(s) ==
    /\ RouteRegistered
    /\ ~Busy(s)
    /\ \E body \in BookingBodies :
        /\ posts < MaxPosts
        /\ posts' = posts + 1
        /\ pending' = [t \in Slots |->
                IF t = s
                THEN [op |-> "sent", body |-> body, doc |-> InsertDoc(body, nextOid),
                      during |-> {u \in Slots \ {s} : Busy(u)}]
                ELSE IF Busy(t) THEN [pending[t] EXCEPT !.during = @ \cup {s}]
                ELSE pending[t]]
        /\ nextOid' = IF Has(body, "_id") THEN nextOid ELSE nextOid + 1
    /\ UNCHANGED <<runVars, services, bookings, created, removed, last, authVars>>

\* POST /api/v1/booking, from the await on: the store has executed the insert
\* (or failed: a fault, or a duplicate _id) and the handler answers.
CreateBookingReturn(s) ==
    /\ Busy(s)
    /\ \E fault \in BOOLEAN :
        LET doc == pending[s].doc
            err == IF fault THEN "fault"
                   ELSE IF \E d \in bookings : d["_id"] = doc["_id"] THEN "duplicate"
                   ELSE "none"
        IN  /\ bookings' = IF err = "none" THEN Insert(bookings, doc) ELSE bookings
            /\ created' = IF err = "none"
                          THEN created \cup {[id |-> doc["_id"], body |-> pending[s].body]}
                          ELSE created
            /\ pending' = [pending EXCEPT ![s] =
                    [op |-> "answered", body |-> pending[s].body, doc |-> doc,
                     during |-> pending[s].during, err |-> err,
                     status |-> IF err = "none" THEN 201 ELSE 500]]
            /\ last' = IF err = "none"
                       THEN [op |-> "createBooking", status |-> 201, kind |-> "ack",
                             insertedId |-> doc["_id"], conn |-> conn]
                       ELSE [op |-> "createBooking", status |-> 500, kind |-> "msgerr",
                             message |-> "Error adding booking", conn |-> conn]
    /\ UNCHANGED <<runVars, services, nextOid, posts, removed, authVars>>

\* DELETE /api/v1/booking/:id.  new ObjectId(id) is inside the try.
DeleteBooking ==
    /\ RouteRegistered
    /\ \E id \in PathIds, fault \in BOOLEAN :
        IF ~ObjectIdValid(id) \/ fault
        THEN /\ last' = [op |-> "deleteBooking", id |-> id, status |-> 500, kind |-> "msgerr",
                         message |-> "Error deleting booking",
                         fault |-> (ObjectIdValid(id) /\ fault),
                         conn |-> conn]
             /\ UNCHANGED <<bookings, removed>>
        ELSE LET hit == FindOne(bookings, [k \in {"_id"} |-> ObjectId(id)])
             IN  /\ bookings' = bookings \ hit
                 /\ removed' = removed \cup {d["_id"] : d \in hit}
                 /\ last' = [op |-> "deleteBooking", id |-> id, status |-> 200, kind |-> "ack",
                             deletedCount |-> Cardinality(hit), fault |-> FALSE,
                             conn |-> conn]
    /\ UNCHANGED <<runVars, services, nextOid, posts, pending, created, authVars>>

Next ==
    \/ ConnectOk
    \/ ConnectFail
    \/ Root
    \/ NotRouted
    \/ ListServices
    \/ GetService
    \/ ListBookings
    \/ \E s \in Slots : CreateBookingCall(s)
    \/ \E s \in Slots : CreateBookingReturn(s)
    \/ DeleteBooking

Spec == InitOneCatalogue /\ [][Next]_vars

NextServices ==
    \/ ConnectOk
    \/ ConnectFail
    \/ Root
    \/ NotRouted
    \/ ListServices
    \/ GetService

SpecServices == Init /\ [][NextServices]_vars

(***************************************************************************)
(* Claims about the middleware and the tokens (SpecAuth)                   *)
(***************************************************************************)
Authorized == mw.kind = "done" /\ mw.nextCalls = 1

\* C1 (as amended): every pass through authenticateJWT ends in exactly one of
\* three outcomes: the token cookie is absent or empty -> 401, next not
\* called, req.user not set; the cookie has a non-empty value that fails
\* verification -> 403, next not called, req.user not set; verification
\* succeeds -> no response, req.user is the decoded payload, next called once.
\* A value that is no JWT and a token whose payload or key was changed get 403.
C1_ThreeOutcomes ==
    mw.kind = "done" =>
        /\ mw.cookie.kind \in {"absent", "empty"} =>
              mw.status = 401 /\ mw.nextCalls = 0 /\ ~mw.userSet
        /\ mw.cookie.kind \notin {"absent", "empty"} /\ ~VerifyOk(mw.cookie, mw.at) =>
              mw.status = 403 /\ mw.nextCalls = 0 /\ ~mw.userSet
        /\ mw.cookie.kind \notin {"absent", "empty"} /\ VerifyOk(mw.cookie, mw.at) =>
              mw.status = 0 /\ mw.nextCalls = 1 /\ mw.userSet /\ mw.user = mw.cookie.payload
        /\ mw.cookie.kind = "garbage" => mw.status = 403
        /\ mw.cookie.kind = "jwt" /\ (mw.cookie.key # Secret \/ mw.cookie.over # mw.cookie.payload) =>
              mw.status = 403

\* C1 witness: a request whose token cookie is present with an empty value
\* has been answered 401.
C1_Witness == mw.kind = "done" /\ mw.cookie.kind = "empty" /\ mw.status = 401

\* C1 as originally stated: 401 exactly when the cookie is absent, 403 whenever
\* the cookie is present and verification fails.
C1_Original ==
    mw.kind = "done" =>
        /\ mw.cookie.kind = "absent" =>
              mw.status = 401 /\ mw.nextCalls = 0
        /\ mw.cookie.kind # "absent" /\ ~VerifyOk(mw.cookie, mw.at) =>
              mw.status = 403 /\ mw.nextCalls = 0
        /\ mw.cookie.kind # "absent" /\ VerifyOk(mw.cookie, mw.at) =>
              mw.status = 0 /\ mw.nextCalls = 1 /\ mw.userSet /\ mw.user = mw.cookie.payload

\* C2: a request is authorized only with a token POST /jwt-auth issued, its
\* signature unmodified, and only before one hour has passed since the time t
\* it was issued at.
C2_OnlyWithinHourOfIssue ==
    Authorized =>
        /\ \E i \in issued : i.token = mw.cookie
        /\ \A i \in issued : i.token = mw.cookie => mw.at < i.t + ExpiresIn

\* C2 with the expiry the token carries in place of t + 1h.
OnlyBeforeTokenExp ==
    Authorized =>
        /\ \E i \in issued : i.token = mw.cookie
        /\ mw.at < mw.cookie.payload["exp"]

\* C2 restricted to tokens issued for a body without an iat of its own.
OnlyWithinHourNoClientIat ==
    Authorized =>
        \A i \in issued : i.token = mw.cookie /\ ~Has(i.body, "iat") => mw.at < i.t + ExpiresIn

\* C3 (as amended): the value attached as req.user is the request body of
\* POST /jwt-auth with two fields set by jwt.sign: iat (the body's iat when it
\* is a non-zero number, else the time of issue) and exp = iat + 1h; every
\* other field of the body is there unchanged and nothing else is added.
C3_RoundTripAddsIatExp ==
    Authorized =>
        \A i \in issued : i.token = mw.cookie =>
            /\ DOMAIN mw.user = DOMAIN i.body \cup {"iat", "exp"}
            /\ \A k \in DOMAIN i.body \ {"iat", "exp"} : mw.user[k] = i.body[k]
            /\ mw.user["iat"] = (IF Has(i.body, "iat") /\ i.body["iat"] # 0 THEN i.body["iat"] ELSE i.t)
            /\ mw.user["exp"] = mw.user["iat"] + ExpiresIn

\* C3 witness: a request carrying a token issued for a body with an email has
\* been authorized.
C3_Witness ==
    /\ Authorized
    /\ \E i \in issued : i.token = mw.cookie /\ Has(i.body, "email")

\* C3 as originally stated: req.user equals the request body, no field added,
\* removed or altered.
C3_Original ==
    Authorized => \A i \in issued : i.token = mw.cookie => mw.user = i.body

(***************************************************************************)
(* Claims about the route handlers and run() (Spec, SpecServices)          *)
(***************************************************************************)
\* C4: on both identifier-taking endpoints a path identifier that is not a
\* valid ObjectId string is answered 500 with a {message, error} body.
C4_InvalidIdIs500 ==
    last.op \in {"getService", "deleteBooking"} /\ ~ObjectIdValid(last.id) =>
        last.status = 500 /\ last.kind = "msgerr"

\* C5: GET /api/v1/services/:id with a valid identifier, the store call not
\* failing: 200 with exactly the document of that identifier when there is
\* one, 404 {message: "Service not found"} when there is none; a 200 never
\* carries another document.
C5_GetServiceById ==
    last.op = "getService" /\ ObjectIdValid(last.id) =>
        LET hit == {d \in services : d["_id"] = ObjectId(last.id)}
        IN  /\ last.status = 200 => last.kind = "doc" /\ last.doc = hit /\ hit # {}
            /\ ~last.fault /\ hit # {} => last.status = 200
            /\ ~last.fault /\ hit = {} =>
                  last.status = 404 /\ last.kind = "msg" /\ last.message = "Service not found"

\* C5 witness: a service was fetched by identifier from a collection that
\* holds other services too.
C5_Witness ==
    /\ last.op = "getService"
    /\ last.status = 200
    /\ Cardinality(services) > 1

ListStep == last'.op = "listBookings" /\ last'.status = 200 /\ last' # last

DeleteStep ==
    /\ last'.op = "deleteBooking"
    /\ ~last'.fault
    /\ last' # last \/ bookings' # bookings

\* C7: a DELETE /api/v1/booking/:id naming the identifier of an existing
\* booking answers 200 with deletedCount 1 and removes exactly that booking;
\* a later DELETE of the same identifier answers 200 with deletedCount 0 and
\* leaves the collection as it is.
C7_DeleteTwice ==
    [][DeleteStep =>
          LET target == {d \in bookings : IdString(d["_id"]) = last'.id}
          IN  /\ target # {} =>
                    /\ last'.status = 200
                    /\ last'.deletedCount = 1
                    /\ bookings' = bookings \ target
              /\ target = {} /\ (\E r \in removed : IdString(r) = last'.id) =>
                    /\ last'.status = 200
                    /\ last'.deletedCount = 0
                    /\ bookings' = bookings
       ]_vars

\* C7 restricted to bookings whose _id the driver generated (an ObjectId).
DeleteTwiceStoreAssigned ==
    [][DeleteStep =>
          LET target == {d \in bookings : d["_id"] = ObjectId(last'.id)}
          IN  /\ target # {} =>
                    /\ last'.status = 200
                    /\ last'.deletedCount = 1
                    /\ bookings' = bookings \ target
              /\ ObjectId(last'.id) \in removed =>
                    /\ last'.status = 200
                    /\ last'.deletedCount = 0
                    /\ bookings' = bookings
       ]_vars

\* C8: once POST /api/v1/booking has answered 201 with insertedId, and until
\* a delete removes that identifier, every GET /api/v1/booking that is
\* unfiltered or filtered by the booking's email answers a document with that
\* identifier whose other fields are the submitted body's.
C8_CreatedIsListed ==
    [][ListStep =>
          \A c \in created :
              /\ c.id \notin removed
              /\ QueryOf(last'.query) = NoFilter
                    \/ (Has(c.body, "email") /\ QueryOf(last'.query) = [k \in {"email"} |-> c.body["email"]])
              => /\ With(c.body, "_id", c.id) \in last'.docs
                 /\ Cardinality({d \in last'.docs : d["_id"] = c.id}) = 1
       ]_vars

\* C8 witness: a booking with an email was created and answered 201, another
\* booking was deleted, and a listing filtered by that email answered it.
C8_Witness ==
    /\ removed # {}
    /\ last.op = "listBookings"
    /\ last.status = 200
    /\ Has(last.query, "email")
    /\ \E c \in created :
          /\ c.id \notin removed
          /\ Has(c.body, "email")
          /\ With(c.body, "_id", c.id) \in last.docs

Concurrent(s, t) ==
    /\ s # t
    /\ pending[s].op = "answered"
    /\ pending[t].op = "answered"
    /\ t \in pending[s].during
    /\ s \in pending[t].during

\* C9: two POST /api/v1/booking requests in flight at the same time, the
\* store not faulting, are both answered 201 with distinct insertedId values
\* and both documents are in the collection (until deleted), whatever the
\* order they complete in.
C9_ConcurrentCreates ==
    \A s \in Slots, t \in Slots :
        Concurrent(s, t) /\ pending[s].err # "fault" /\ pending[t].err # "fault" =>
            /\ pending[s].status = 201
            /\ pending[t].status = 201
            /\ pending[s].doc["_id"] # pending[t].doc["_id"]
            /\ pending[s].doc["_id"] \notin removed => pending[s].doc \in bookings

\* C9 restricted to request bodies that carry no _id of their own.
ConcurrentCreatesStoreAssigned ==
    \A s \in Slots, t \in Slots :
        /\ Concurrent(s, t)
        /\ pending[s].err # "fault" /\ pending[t].err # "fault"
        /\ ~Has(pending[s].body, "_id") /\ ~Has(pending[t].body, "_id")
        => /\ pending[s].status = 201
           /\ pending[t].status = 201
           /\ pending[s].doc["_id"] # pending[t].doc["_id"]
           /\ pending[s].doc["_id"] \notin removed => pending[s].doc \in bookings

HandlerOps ==
    {"jwt-auth", "listServices", "getService", "listBookings", "createBooking", "deleteBooking"}

\* C10: the /jwt-auth and /api/v1/* handlers exist only once client.connect()
\* has succeeded: no handler answers and no store call is in flight unless
\* the client is connected; before that, and after a failed connect, such a
\* request reaches no handler (Express answers 404); GET / is answered
\* "Server is running" in every connection state.
C10_RoutesAfterConnect ==
    /\ routes => conn = "connected"
    /\ \A s \in Slots : Busy(s) => conn = "connected"
    /\ last.op \in HandlerOps => last.conn = "connected"
    /\ last.op = "unrouted" => last.conn \in {"connecting", "failed"} /\ last.status = 404
    /\ last.op # "none" /\ last.conn \in {"connecting", "failed"} => last.op \in {"root", "unrouted"}
    /\ last.op = "root" => last.status = 200 /\ last.text = "Server is running"

\* C10 witness: after a failed connect a request to an API path found no
\* handler.
C10_Witness == last.op = "unrouted" /\ last.conn = "failed" /\ conn = "failed"

====
